---------------------------- MODULE Spec2Model ----------------------------
(***************************************************************************)
(* A model of package webcolors (go-webcolors.go): the color name tables,  *)
(* the reverse tables built while the package is initialised, the          *)
(* normalizers and the conversions between names, hex values, integer      *)
(* triplets and percent triplets.                                          *)
(*                                                                         *)
(* A Go string is a sequence of one-character strings, so that the         *)
(* conversions are computed character by character as the code does.       *)
(* A Go map is a function; its domain is the set of keys.                  *)
(***************************************************************************)
EXTENDS Integers, Sequences, FiniteSets, TLC

VARIABLES
  pc,               \* "load": before the package variables are set,
                    \* "init": before init() has run, "ready": after it
  CSS21NamesToHex,  \* the css21 forward map (filled by init())
  HTML4HexToNames,  \* the html4 reverse map (CSS2HexToNames is the same map)
  CSS21HexToNames,  \* the css21 reverse map
  CSS3HexToNames,   \* the css3 reverse map
  call,             \* the last call made by a client: [op, arg, spec]
  ret               \* what that call returned

vars == <<pc, CSS21NamesToHex, HTML4HexToNames, CSS21HexToNames,
          CSS3HexToNames, call, ret>>

tables == <<pc, CSS21NamesToHex, HTML4HexToNames, CSS21HexToNames,
            CSS3HexToNames>>

----------------------------------------------------------------------------
(* Strings *)

UpperLetters ==
  <<"A","B","C","D","E","F","G","H","I","J","K","L","M",
    "N","O","P","Q","R","S","T","U","V","W","X","Y","Z">>

LowerLetters ==
  <<"a","b","c","d","e","f","g","h","i","j","k","l","m",
    "n","o","p","q","r","s","t","u","v","w","x","y","z">>

\* strings.ToLower on one character
ToLowerChar(c) ==
  IF \E i \in 1..26 : UpperLetters[i] = c
    THEN LowerLetters[CHOOSE i \in 1..26 : UpperLetters[i] = c]
    ELSE c

\* strings.ToLower
ToLower(s) == [i \in 1..Len(s) |-> ToLowerChar(s[i])]

ToUpperChar(c) ==
  IF \E i \in 1..26 : LowerLetters[i] = c
    THEN UpperLetters[CHOOSE i \in 1..26 : LowerLetters[i] = c]
    ELSE c

\* the upper-case spelling of a name (used to build inputs)
ToUpper(s) == [i \in 1..Len(s) |-> ToUpperChar(s[i])]

\* the capitalised spelling of a name (used to build inputs)
Capitalize(s) == [i \in 1..Len(s) |-> IF i = 1 THEN ToUpperChar(s[i]) ELSE s[i]]

----------------------------------------------------------------------------
(* Values *)

\* F(x) for x the value of v: := of Go, v is evaluated once
Bind(v, F(_)) == CHOOSE r \in {F(x) : x \in {v}} : TRUE

----------------------------------------------------------------------------
(* Maps *)

EmptyMap == <<>>

\* m[k] = v
MapSet(m, k, v) == (k :> v) @@ m

\* the map of m[e[1]] = e[2] for the entries e from lo to hi of a sequence,
\* in its order: a later entry overwrites an earlier one
RECURSIVE MapOfRange(_, _, _)
MapOfRange(entries, lo, hi) ==
  IF lo > hi THEN EmptyMap
  ELSE IF lo = hi THEN entries[lo][1] :> entries[lo][2]
  ELSE LET mid == (lo + hi) \div 2
       IN  MapOfRange(entries, mid + 1, hi) @@ MapOfRange(entries, lo, mid)

\* m after m[e[1]] = e[2] for every entry e of a sequence, in its order
MapOfFrom(entries, m) == MapOfRange(entries, 1, Len(entries)) @@ m

\* the map a map literal denotes
MapOf(entries) == MapOfFrom(entries, EmptyMap)

\* the keys of a map literal, in the order they are written
KeysOf(entries) == [i \in 1..Len(entries) |-> entries[i][1]]

Reverse(s) == [i \in 1..Len(s) |-> s[Len(s) + 1 - i]]

Rotate(s, k) == SubSeq(s, k + 1, Len(s)) \o SubSeq(s, 1, k)

\* The orders in which `for k, v := range m` may visit the keys of a map.
\* Go leaves the order unspecified and starts at a random position; the
\* orders taken here are the rotations of the written order, forwards and
\* backwards.
RangeOrders(keys) ==
  IF keys = <<>> THEN {<<>>}
  ELSE LET rot == {Rotate(keys, k) : k \in 0..(Len(keys) - 1)}
       IN  rot \cup {Reverse(o) : o \in rot}

\* reverseMap(m) when range visits the keys of m in the given order:
\* n[v] = k for every entry, a later entry overwriting an earlier one
reverseMap(m, order) ==
  MapOfFrom([i \in 1..Len(order) |-> <<m[order[i]], order[i]>>], EmptyMap)

----------------------------------------------------------------------------
(* The name tables *)

HTML4 == "html4"
CSS2 == "css2"
CSS21 == "css21"
CSS3 == "css3"

SupportedSpecifications == <<HTML4, CSS2, CSS21, CSS3>>

\* The html4 table in the order it is written (name, hex).
HTML4Entries ==
  << << <<"a","q","u","a">>, <<"#","0","0","f","f","f","f">> >>,
     << <<"b","l","a","c","k">>, <<"#","0","0","0","0","0","0">> >>,
     << <<"b","l","u","e">>, <<"#","0","0","0","0","f","f">> >>,
     << <<"f","u","c","h","s","i","a">>, <<"#","f","f","0","0","f","f">> >>,
     << <<"g","r","e","e","n">>, <<"#","0","0","8","0","0","0">> >>,
     << <<"g","r","a","y">>, <<"#","8","0","8","0","8","0">> >>,
     << <<"g","r","e","y">>, <<"#","8","0","8","0","8","0">> >>,
     << <<"l","i","m","e">>, <<"#","0","0","f","f","0","0">> >>,
     << <<"m","a","r","o","o","n">>, <<"#","8","0","0","0","0","0">> >>,
     << <<"n","a","v","y">>, <<"#","0","0","0","0","8","0">> >>,
     << <<"o","l","i","v","e">>, <<"#","8","0","8","0","0","0">> >>,
     << <<"p","u","r","p","l","e">>, <<"#","8","0","0","0","8","0">> >>,
     << <<"r","e","d">>, <<"#","f","f","0","0","0","0">> >>,
     << <<"s","i","l","v","e","r">>, <<"#","c","0","c","0","c","0">> >>,
     << <<"t","e","a","l">>, <<"#","0","0","8","0","8","0">> >>,
     << <<"w","h","i","t","e">>, <<"#","f","f","f","f","f","f">> >>,
     << <<"y","e","l","l","o","w">>, <<"#","f","f","f","f","0","0">> >> >>

\* The css3 table in the order it is written (name, hex).
CSS3Entries ==
  << << <<"a","l","i","c","e","b","l","u","e">>, <<"#","f","0","f","8","f","f">> >>,
     << <<"a","n","t","i","q","u","e","w","h","i","t","e">>, <<"#","f","a","e","b","d","7">> >>,
     << <<"a","q","u","a">>, <<"#","0","0","f","f","f","f">> >>,
     << <<"a","q","u","a","m","a","r","i","n","e">>, <<"#","7","f","f","f","d","4">> >>,
     << <<"a","z","u","r","e">>, <<"#","f","0","f","f","f","f">> >>,
     << <<"b","e","i","g","e">>, <<"#","f","5","f","5","d","c">> >>,
     << <<"b","i","s","q","u","e">>, <<"#","f","f","e","4","c","4">> >>,
     << <<"b","l","a","c","k">>, <<"#","0","0","0","0","0","0">> >>,
     << <<"b","l","a","n","c","h","e","d","a","l","m","o","n","d">>, <<"#","f","f","e","b","c","d">> >>,
     << <<"b","l","u","e">>, <<"#","0","0","0","0","f","f">> >>,
     << <<"b","l","u","e","v","i","o","l","e","t">>, <<"#","8","a","2","b","e","2">> >>,
     << <<"b","r","o","w","n">>, <<"#","a","5","2","a","2","a">> >>,
     << <<"b","u","r","l","y","w","o","o","d">>, <<"#","d","e","b","8","8","7">> >>,
     << <<"c","a","d","e","t","b","l","u","e">>, <<"#","5","f","9","e","a","0">> >>,
     << <<"c","h","a","r","t","r","e","u","s","e">>, <<"#","7","f","f","f","0","0">> >>,
     << <<"c","h","o","c","o","l","a","t","e">>, <<"#","d","2","6","9","1","e">> >>,
     << <<"c","o","r","a","l">>, <<"#","f","f","7","f","5","0">> >>,
     << <<"c","o","r","n","f","l","o","w","e","r","b","l","u","e">>, <<"#","6","4","9","5","e","d">> >>,
     << <<"c","o","r","n","s","i","l","k">>, <<"#","f","f","f","8","d","c">> >>,
     << <<"c","r","i","m","s","o","n">>, <<"#","d","c","1","4","3","c">> >>,
     << <<"c","y","a","n">>, <<"#","0","0","f","f","f","f">> >>,
     << <<"d","a","r","k","b","l","u","e">>, <<"#","0","0","0","0","8","b">> >>,
     << <<"d","a","r","k","c","y","a","n">>, <<"#","0","0","8","b","8","b">> >>,
     << <<"d","a","r","k","g","o","l","d","e","n","r","o","d">>, <<"#","b","8","8","6","0","b">> >>,
     << <<"d","a","r","k","g","r","a","y">>, <<"#","a","9","a","9","a","9">> >>,
     << <<"d","a","r","k","g","r","e","y">>, <<"#","a","9","a","9","a","9">> >>,
     << <<"d","a","r","k","g","r","e","e","n">>, <<"#","0","0","6","4","0","0">> >>,
     << <<"d","a","r","k","k","h","a","k","i">>, <<"#","b","d","b","7","6","b">> >>,
     << <<"d","a","r","k","m","a","g","e","n","t","a">>, <<"#","8","b","0","0","8","b">> >>,
     << <<"d","a","r","k","o","l","i","v","e","g","r","e","e","n">>, <<"#","5","5","6","b","2","f">> >>,
     << <<"d","a","r","k","o","r","a","n","g","e">>, <<"#","f","f","8","c","0","0">> >>,
     << <<"d","a","r","k","o","r","c","h","i","d">>, <<"#","9","9","3","2","c","c">> >>,
     << <<"d","a","r","k","r","e","d">>, <<"#","8","b","0","0","0","0">> >>,
     << <<"d","a","r","k","s","a","l","m","o","n">>, <<"#","e","9","9","6","7","a">> >>,
     << <<"d","a","r","k","s","e","a","g","r","e","e","n">>, <<"#","8","f","b","c","8","f">> >>,
     << <<"d","a","r","k","s","l","a","t","e","b","l","u","e">>, <<"#","4","8","3","d","8","b">> >>,
     << <<"d","a","r","k","s","l","a","t","e","g","r","a","y">>, <<"#","2","f","4","f","4","f">> >>,
     << <<"d","a","r","k","s","l","a","t","e","g","r","e","y">>, <<"#","2","f","4","f","4","f">> >>,
     << <<"d","a","r","k","t","u","r","q","u","o","i","s","e">>, <<"#","0","0","c","e","d","1">> >>,
     << <<"d","a","r","k","v","i","o","l","e","t">>, <<"#","9","4","0","0","d","3">> >>,
     << <<"d","e","e","p","p","i","n","k">>, <<"#","f","f","1","4","9","3">> >>,
     << <<"d","e","e","p","s","k","y","b","l","u","e">>, <<"#","0","0","b","f","f","f">> >>,
     << <<"d","i","m","g","r","a","y">>, <<"#","6","9","6","9","6","9">> >>,
     << <<"d","i","m","g","r","e","y">>, <<"#","6","9","6","9","6","9">> >>,
     << <<"d","o","d","g","e","r","b","l","u","e">>, <<"#","1","e","9","0","f","f">> >>,
     << <<"f","i","r","e","b","r","i","c","k">>, <<"#","b","2","2","2","2","2">> >>,
     << <<"f","l","o","r","a","l","w","h","i","t","e">>, <<"#","f","f","f","a","f","0">> >>,
     << <<"f","o","r","e","s","t","g","r","e","e","n">>, <<"#","2","2","8","b","2","2">> >>,
     << <<"f","u","c","h","s","i","a">>, <<"#","f","f","0","0","f","f">> >>,
     << <<"g","a","i","n","s","b","o","r","o">>, <<"#","d","c","d","c","d","c">> >>,
     << <<"g","h","o","s","t","w","h","i","t","e">>, <<"#","f","8","f","8","f","f">> >>,
     << <<"g","o","l","d">>, <<"#","f","f","d","7","0","0">> >>,
     << <<"g","o","l","d","e","n","r","o","d">>, <<"#","d","a","a","5","2","0">> >>,
     << <<"g","r","a","y">>, <<"#","8","0","8","0","8","0">> >>,
     << <<"g","r","e","y">>, <<"#","8","0","8","0","8","0">> >>,
     << <<"g","r","e","e","n">>, <<"#","0","0","8","0","0","0">> >>,
     << <<"g","r","e","e","n","y","e","l","l","o","w">>, <<"#","a","d","f","f","2","f">> >>,
     << <<"h","o","n","e","y","d","e","w">>, <<"#","f","0","f","f","f","0">> >>,
     << <<"h","o","t","p","i","n","k">>, <<"#","f","f","6","9","b","4">> >>,
     << <<"i","n","d","i","a","n","r","e","d">>, <<"#","c","d","5","c","5","c">> >>,
     << <<"i","n","d","i","g","o">>, <<"#","4","b","0","0","8","2">> >>,
     << <<"i","v","o","r","y">>, <<"#","f","f","f","f","f","0">> >>,
     << <<"k","h","a","k","i">>, <<"#","f","0","e","6","8","c">> >>,
     << <<"l","a","v","e","n","d","e","r">>, <<"#","e","6","e","6","f","a">> >>,
     << <<"l","a","v","e","n","d","e","r","b","l","u","s","h">>, <<"#","f","f","f","0","f","5">> >>,
     << <<"l","a","w","n","g","r","e","e","n">>, <<"#","7","c","f","c","0","0">> >>,
     << <<"l","e","m","o","n","c","h","i","f","f","o","n">>, <<"#","f","f","f","a","c","d">> >>,
     << <<"l","i","g","h","t","b","l","u","e">>, <<"#","a","d","d","8","e","6">> >>,
     << <<"l","i","g","h","t","c","o","r","a","l">>, <<"#","f","0","8","0","8","0">> >>,
     << <<"l","i","g","h","t","c","y","a","n">>, <<"#","e","0","f","f","f","f">> >>,
     << <<"l","i","g","h","t","g","o","l","d","e","n","r","o","d","y","e","l","l","o","w">>, <<"#","f","a","f","a","d","2">> >>,
     << <<"l","i","g","h","t","g","r","a","y">>, <<"#","d","3","d","3","d","3">> >>,
     << <<"l","i","g","h","t","g","r","e","y">>, <<"#","d","3","d","3","d","3">> >>,
     << <<"l","i","g","h","t","g","r","e","e","n">>, <<"#","9","0","e","e","9","0">> >>,
     << <<"l","i","g","h","t","p","i","n","k">>, <<"#","f","f","b","6","c","1">> >>,
     << <<"l","i","g","h","t","s","a","l","m","o","n">>, <<"#","f","f","a","0","7","a">> >>,
     << <<"l","i","g","h","t","s","e","a","g","r","e","e","n">>, <<"#","2","0","b","2","a","a">> >>,
     << <<"l","i","g","h","t","s","k","y","b","l","u","e">>, <<"#","8","7","c","e","f","a">> >>,
     << <<"l","i","g","h","t","s","l","a","t","e","g","r","a","y">>, <<"#","7","7","8","8","9","9">> >>,
     << <<"l","i","g","h","t","s","l","a","t","e","g","r","e","y">>, <<"#","7","7","8","8","9","9">> >>,
     << <<"l","i","g","h","t","s","t","e","e","l","b","l","u","e">>, <<"#","b","0","c","4","d","e">> >>,
     << <<"l","i","g","h","t","y","e","l","l","o","w">>, <<"#","f","f","f","f","e","0">> >>,
     << <<"l","i","m","e">>, <<"#","0","0","f","f","0","0">> >>,
     << <<"l","i","m","e","g","r","e","e","n">>, <<"#","3","2","c","d","3","2">> >>,
     << <<"l","i","n","e","n">>, <<"#","f","a","f","0","e","6">> >>,
     << <<"m","a","g","e","n","t","a">>, <<"#","f","f","0","0","f","f">> >>,
     << <<"m","a","r","o","o","n">>, <<"#","8","0","0","0","0","0">> >>,
     << <<"m","e","d","i","u","m","a","q","u","a","m","a","r","i","n","e">>, <<"#","6","6","c","d","a","a">> >>,
     << <<"m","e","d","i","u","m","b","l","u","e">>, <<"#","0","0","0","0","c","d">> >>,
     << <<"m","e","d","i","u","m","o","r","c","h","i","d">>, <<"#","b","a","5","5","d","3">> >>,
     << <<"m","e","d","i","u","m","p","u","r","p","l","e">>, <<"#","9","3","7","0","d","b">> >>,
     << <<"m","e","d","i","u","m","s","e","a","g","r","e","e","n">>, <<"#","3","c","b","3","7","1">> >>,
     << <<"m","e","d","i","u","m","s","l","a","t","e","b","l","u","e">>, <<"#","7","b","6","8","e","e">> >>,
     << <<"m","e","d","i","u","m","s","p","r","i","n","g","g","r","e","e","n">>, <<"#","0","0","f","a","9","a">> >>,
     << <<"m","e","d","i","u","m","t","u","r","q","u","o","i","s","e">>, <<"#","4","8","d","1","c","c">> >>,
     << <<"m","e","d","i","u","m","v","i","o","l","e","t","r","e","d">>, <<"#","c","7","1","5","8","5">> >>,
     << <<"m","i","d","n","i","g","h","t","b","l","u","e">>, <<"#","1","9","1","9","7","0">> >>,
     << <<"m","i","n","t","c","r","e","a","m">>, <<"#","f","5","f","f","f","a">> >>,
     << <<"m","i","s","t","y","r","o","s","e">>, <<"#","f","f","e","4","e","1">> >>,
     << <<"m","o","c","c","a","s","i","n">>, <<"#","f","f","e","4","b","5">> >>,
     << <<"n","a","v","a","j","o","w","h","i","t","e">>, <<"#","f","f","d","e","a","d">> >>,
     << <<"n","a","v","y">>, <<"#","0","0","0","0","8","0">> >>,
     << <<"o","l","d","l","a","c","e">>, <<"#","f","d","f","5","e","6">> >>,
     << <<"o","l","i","v","e">>, <<"#","8","0","8","0","0","0">> >>,
     << <<"o","l","i","v","e","d","r","a","b">>, <<"#","6","b","8","e","2","3">> >>,
     << <<"o","r","a","n","g","e">>, <<"#","f","f","a","5","0","0">> >>,
     << <<"o","r","a","n","g","e","r","e","d">>, <<"#","f","f","4","5","0","0">> >>,
     << <<"o","r","c","h","i","d">>, <<"#","d","a","7","0","d","6">> >>,
     << <<"p","a","l","e","g","o","l","d","e","n","r","o","d">>, <<"#","e","e","e","8","a","a">> >>,
     << <<"p","a","l","e","g","r","e","e","n">>, <<"#","9","8","f","b","9","8">> >>,
     << <<"p","a","l","e","t","u","r","q","u","o","i","s","e">>, <<"#","a","f","e","e","e","e">> >>,
     << <<"p","a","l","e","v","i","o","l","e","t","r","e","d">>, <<"#","d","b","7","0","9","3">> >>,
     << <<"p","a","p","a","y","a","w","h","i","p">>, <<"#","f","f","e","f","d","5">> >>,
     << <<"p","e","a","c","h","p","u","f","f">>, <<"#","f","f","d","a","b","9">> >>,
     << <<"p","e","r","u">>, <<"#","c","d","8","5","3","f">> >>,
     << <<"p","i","n","k">>, <<"#","f","f","c","0","c","b">> >>,
     << <<"p","l","u","m">>, <<"#","d","d","a","0","d","d">> >>,
     << <<"p","o","w","d","e","r","b","l","u","e">>, <<"#","b","0","e","0","e","6">> >>,
     << <<"p","u","r","p","l","e">>, <<"#","8","0","0","0","8","0">> >>,
     << <<"r","e","d">>, <<"#","f","f","0","0","0","0">> >>,
     << <<"r","o","s","y","b","r","o","w","n">>, <<"#","b","c","8","f","8","f">> >>,
     << <<"r","o","y","a","l","b","l","u","e">>, <<"#","4","1","6","9","e","1">> >>,
     << <<"s","a","d","d","l","e","b","r","o","w","n">>, <<"#","8","b","4","5","1","3">> >>,
     << <<"s","a","l","m","o","n">>, <<"#","f","a","8","0","7","2">> >>,
     << <<"s","a","n","d","y","b","r","o","w","n">>, <<"#","f","4","a","4","6","0">> >>,
     << <<"s","e","a","g","r","e","e","n">>, <<"#","2","e","8","b","5","7">> >>,
     << <<"s","e","a","s","h","e","l","l">>, <<"#","f","f","f","5","e","e">> >>,
     << <<"s","i","e","n","n","a">>, <<"#","a","0","5","2","2","d">> >>,
     << <<"s","i","l","v","e","r">>, <<"#","c","0","c","0","c","0">> >>,
     << <<"s","k","y","b","l","u","e">>, <<"#","8","7","c","e","e","b">> >>,
     << <<"s","l","a","t","e","b","l","u","e">>, <<"#","6","a","5","a","c","d">> >>,
     << <<"s","l","a","t","e","g","r","a","y">>, <<"#","7","0","8","0","9","0">> >>,
     << <<"s","l","a","t","e","g","r","e","y">>, <<"#","7","0","8","0","9","0">> >>,
     << <<"s","n","o","w">>, <<"#","f","f","f","a","f","a">> >>,
     << <<"s","p","r","i","n","g","g","r","e","e","n">>, <<"#","0","0","f","f","7","f">> >>,
     << <<"s","t","e","e","l","b","l","u","e">>, <<"#","4","6","8","2","b","4">> >>,
     << <<"t","a","n">>, <<"#","d","2","b","4","8","c">> >>,
     << <<"t","e","a","l">>, <<"#","0","0","8","0","8","0">> >>,
     << <<"t","h","i","s","t","l","e">>, <<"#","d","8","b","f","d","8">> >>,
     << <<"t","o","m","a","t","o">>, <<"#","f","f","6","3","4","7">> >>,
     << <<"t","u","r","q","u","o","i","s","e">>, <<"#","4","0","e","0","d","0">> >>,
     << <<"v","i","o","l","e","t">>, <<"#","e","e","8","2","e","e">> >>,
     << <<"w","h","e","a","t">>, <<"#","f","5","d","e","b","3">> >>,
     << <<"w","h","i","t","e">>, <<"#","f","f","f","f","f","f">> >>,
     << <<"w","h","i","t","e","s","m","o","k","e">>, <<"#","f","5","f","5","f","5">> >>,
     << <<"y","e","l","l","o","w">>, <<"#","f","f","f","f","0","0">> >>,
     << <<"y","e","l","l","o","w","g","r","e","e","n">>, <<"#","9","a","c","d","3","2">> >> >>

HTML4NamesToHex == MapOf(HTML4Entries)

\* CSS 2 used the same list as HTML 4: the same map, not a copy
CSS2NamesToHex == HTML4NamesToHex

CSS3NamesToHex == MapOf(CSS3Entries)

\* CSS2HexToNames = HTML4HexToNames: the same map, not a copy
CSS2HexToNames == HTML4HexToNames

orange == <<"o","r","a","n","g","e">>

\* The canonical spellings init() writes into CSS3HexToNames.
CSS3Overrides ==
  << << <<"#","a","9","a","9","a","9">>, <<"d","a","r","k","g","r","a","y">> >>,
     << <<"#","2","f","4","f","4","f">>, <<"d","a","r","k","s","l","a","t","e","g","r","a","y">> >>,
     << <<"#","6","9","6","9","6","9">>, <<"d","i","m","g","r","a","y">> >>,
     << <<"#","8","0","8","0","8","0">>, <<"g","r","a","y">> >>,
     << <<"#","d","3","d","3","d","3">>, <<"l","i","g","h","t","g","r","a","y">> >>,
     << <<"#","7","7","8","8","9","9">>, <<"l","i","g","h","t","s","l","a","t","e","g","r","a","y">> >>,
     << <<"#","7","0","8","0","9","0">>, <<"s","l","a","t","e","g","r","a","y">> >> >>

----------------------------------------------------------------------------
(* Package initialisation *)

\* The reverse maps reverseMap can return for the html4 and css3 tables.
HTML4Reversals ==
  {reverseMap(HTML4NamesToHex, o) : o \in RangeOrders(KeysOf(HTML4Entries))}

CSS3Reversals ==
  {reverseMap(CSS3NamesToHex, o) : o \in RangeOrders(KeysOf(CSS3Entries))}

NoCall == [op |-> "none", arg |-> <<>>, spec |-> ""]
NoRet == [status |-> "none", val |-> <<>>, err |-> ""]

Init ==
  /\ pc = "load"
  /\ CSS21NamesToHex = EmptyMap
  /\ HTML4HexToNames = EmptyMap
  /\ CSS21HexToNames = EmptyMap
  /\ CSS3HexToNames = EmptyMap
  /\ call = NoCall
  /\ ret = NoRet

\* The package-level variable initialisers, run before init():
\* CSS21NamesToHex is an empty map when CSS21HexToNames is computed from it.
PackageVars ==
  /\ pc = "load"
  /\ CSS21NamesToHex' = EmptyMap
  /\ HTML4HexToNames' \in HTML4Reversals
  /\ CSS21HexToNames' \in {reverseMap(CSS21NamesToHex', o) : o \in RangeOrders(<<>>)}
  /\ CSS3HexToNames' \in CSS3Reversals
  /\ pc' = "init"
  /\ UNCHANGED <<call, ret>>

\* init() without its addition of orange
CSS21FilledWithoutOrange(m) == MapOfFrom(HTML4Entries, m)

\* the first half of init(): every entry of the html4 map is copied into the
\* css21 map, then orange is added
CSS21Filled(m) ==
  MapSet(MapOfFrom(HTML4Entries, m), orange, <<"#","f","f","a","5","0","0">>)

\* the second half of init(): the canonical spellings are written into the
\* css3 reverse map
CSS3Canonical(m) == MapOfFrom(CSS3Overrides, m)

\* func init(): copy the html4 map into the css21 map, add orange, and write
\* the canonical spellings into CSS3HexToNames
init ==
  /\ pc = "init"
  /\ CSS21NamesToHex' = CSS21Filled(CSS21NamesToHex)
  /\ CSS3HexToNames' = CSS3Canonical(CSS3HexToNames)
  /\ pc' = "ready"
  /\ UNCHANGED <<HTML4HexToNames, CSS21HexToNames, call, ret>>

----------------------------------------------------------------------------
(* Results *)

\* A call returns a value and a nil error, or a zero value and an error, or
\* it panics.  Errors are named by their kind:
\*   "UnsupportedSpecification"  spec + "is not output supported Specification ..."
\*   "UnknownColorName"          name + "has no defined color name in " + spec
\*   "UnknownColorHex"           hexValue + "has no defined color name in " + spec
\*   "ErrSyntax", "ErrRange"     the *strconv.NumError of Atoi and ParseFloat
Ok(v) == [status |-> "ok", val |-> v, err |-> ""]
Err(e) == [status |-> "err", val |-> <<>>, err |-> e]
Panic == [status |-> "panic", val |-> <<>>, err |-> "index out of range"]

----------------------------------------------------------------------------
(* Hexadecimal values *)

HexDigits == <<"0","1","2","3","4","5","6","7","8","9","a","b","c","d","e","f">>

UpperHexDigits == <<"0","1","2","3","4","5","6","7","8","9","A","B","C","D","E","F">>

\* the character class [a-fA-F0-9]
IsHexChar(c) == \E i \in 1..16 : HexDigits[i] = c \/ UpperHexDigits[i] = c

\* HexColorRegex.FindStringSubmatch: <<whole match, group 1>>, or the nil
\* slice when `^#([a-fA-F0-9]{3}|[a-fA-F0-9]{6})$` does not match
FindStringSubmatch(s) ==
  IF /\ Len(s) \in {4, 7}
     /\ s[1] = "#"
     /\ \A i \in 2..Len(s) : IsHexChar(s[i])
    THEN <<s, Tail(s)>>
    ELSE <<>>

\* NormalizeHex without strings.ToLower
NormalizeHexKeepingCase(HexValue) ==
  LET m == FindStringSubmatch(HexValue) IN
  IF Len(m) < 2 THEN Panic
  ELSE LET hexDigits == m[2] IN
       IF Len(hexDigits) = 3
         THEN Ok(<<"#">> \o [i \in 1..6 |-> hexDigits[(i + 1) \div 2]])
         ELSE Ok(<<"#">> \o hexDigits)

\* NormalizeHex: [1] of the nil slice panics
NormalizeHex(HexValue) ==
  LET m == FindStringSubmatch(HexValue) IN
  IF Len(m) < 2 THEN Panic
  ELSE LET hexDigits == m[2] IN
       IF Len(hexDigits) = 3
         THEN Ok(<<"#">> \o ToLower([i \in 1..6 |-> hexDigits[(i + 1) \div 2]]))
         ELSE Ok(<<"#">> \o ToLower(hexDigits))

\* the value of a hexadecimal digit, -1 for any other character
FromHexChar(c) ==
  IF IsHexChar(c)
    THEN (CHOOSE i \in 1..16 : HexDigits[i] = c \/ UpperHexDigits[i] = c) - 1
    ELSE -1

\* hex.DecodeString: the bytes, or an error for an odd length or a
\* character that is not a hexadecimal digit
DecodeString(s) ==
  IF \E i \in 1..Len(s) : FromHexChar(s[i]) < 0 THEN Err("InvalidByteError")
  ELSE IF Len(s) % 2 = 1 THEN Err("ErrLength")
  ELSE Ok([i \in 1..(Len(s) \div 2) |->
             16 * FromHexChar(s[2 * i - 1]) + FromHexChar(s[2 * i])])

RECURSIVE Pow(_, _)
Pow(b, e) == IF e = 0 THEN 1 ELSE b * Pow(b, e - 1)

RECURSIVE ByteToIntFrom(_, _)
ByteToIntFrom(input, i) ==
  IF i > Len(input) THEN 0
  ELSE (IF Len(input) - i >= 4 THEN 0 ELSE input[i] * Pow(256, Len(input) - i))
         + ByteToIntFrom(input, i + 1)

\* ByteToInt: the bytes as a big-endian number in a uint32 (the bytes do not
\* overlap, so or-ing them is adding them; a byte shifted by 32 bits or more
\* is 0).  HexToRGB passes one byte.
ByteToInt(input) == ByteToIntFrom(input, 1)

\* normalizeIntegerRGB without its upper limit
normalizeIntegerRGBUnlimited(value) ==
  IF value < 0 THEN 0 ELSE value

\* normalizeIntegerRGB
normalizeIntegerRGB(value) ==
  IF value >= 0 /\ value <= 255 THEN value
  ELSE IF value < 0 THEN 0
  ELSE IF value > 255 THEN 255
  ELSE 0

\* NormalizeIntegerTriplet
NormalizeIntegerTriplet(RGBTriplet) ==
  <<normalizeIntegerRGB(RGBTriplet[1]), normalizeIntegerRGB(RGBTriplet[2]),
    normalizeIntegerRGB(RGBTriplet[3])>>

\* HexToRGB
HexToRGB(hexValue) ==
  LET n == NormalizeHex(hexValue) IN
  IF n.status = "panic" THEN Panic
  ELSE LET hexDigits == n.val
           partialHex1 == DecodeString(SubSeq(hexDigits, 2, 3))
           partialHex2 == DecodeString(SubSeq(hexDigits, 4, 5))
           partialHex3 == DecodeString(SubSeq(hexDigits, 6, 7))
       IN  IF partialHex1.status = "err" THEN Err(partialHex1.err)
           ELSE IF partialHex2.status = "err" THEN Err(partialHex2.err)
           ELSE IF partialHex3.status = "err" THEN Err(partialHex3.err)
           ELSE Ok(<<ByteToInt(partialHex1.val), ByteToInt(partialHex2.val),
                     ByteToInt(partialHex3.val)>>)

\* hex.EncodeToString of one byte
EncodeToString(b) == <<HexDigits[(b \div 16) + 1], HexDigits[(b % 16) + 1]>>

\* the second byte binary.BigEndian.PutUint16 writes for uint16(v)
LowByte(v) == (v % 65536) % 256

\* RGBToHex
RGBToHex(rgbTriplet) ==
  LET integerTriplet == NormalizeIntegerTriplet(rgbTriplet) IN
  <<"#">> \o EncodeToString(LowByte(integerTriplet[1]))
          \o EncodeToString(LowByte(integerTriplet[2]))
          \o EncodeToString(LowByte(integerTriplet[3]))

----------------------------------------------------------------------------
(* Names *)

\* contains
contains(s, e) == \E i \in 1..Len(s) : s[i] = e

\* the forward map the switch of NameToHex selects
NamesToHexOf(spec) ==
  CASE spec = HTML4 -> HTML4NamesToHex
    [] spec = CSS2 -> CSS2NamesToHex
    [] spec = CSS21 -> CSS21NamesToHex
    [] spec = CSS3 -> CSS3NamesToHex

\* the reverse map the switch of HexToName selects
HexToNamesOf(spec) ==
  CASE spec = HTML4 -> HTML4HexToNames
    [] spec = CSS2 -> CSS2HexToNames
    [] spec = CSS21 -> CSS21HexToNames
    [] spec = CSS3 -> CSS3HexToNames

\* NameToHex
NameToHex(name, spec) ==
  IF contains(SupportedSpecifications, spec)
    THEN LET normalized == ToLower(name) IN
         IF normalized \in DOMAIN NamesToHexOf(spec)
           THEN Ok(NamesToHexOf(spec)[normalized])
           ELSE Err("UnknownColorName")
    ELSE Err("UnsupportedSpecification")

\* HexToName normalizing the hex value before it looks at the specification
HexToNameNormalizingFirst(hexValue, spec) ==
  LET n == NormalizeHex(hexValue) IN
  IF n.status = "panic" THEN Panic
  ELSE IF contains(SupportedSpecifications, spec)
    THEN IF n.val \in DOMAIN HexToNamesOf(spec)
           THEN Ok(HexToNamesOf(spec)[n.val])
           ELSE Err("UnknownColorHex")
    ELSE Err("UnsupportedSpecification")

\* HexToName
HexToName(hexValue, spec) ==
  IF contains(SupportedSpecifications, spec)
    THEN LET n == NormalizeHex(hexValue) IN
         IF n.status = "panic" THEN Panic
         ELSE IF n.val \in DOMAIN HexToNamesOf(spec)
           THEN Ok(HexToNamesOf(spec)[n.val])
           ELSE Err("UnknownColorHex")
    ELSE Err("UnsupportedSpecification")

\* NameToRGB
NameToRGB(name, spec) ==
  LET hx == NameToHex(name, spec) IN
  IF hx.status = "err" THEN Err(hx.err) ELSE HexToRGB(hx.val)

\* RGBToName
RGBToName(rgbTriplet, spec) ==
  HexToName(RGBToHex(NormalizeIntegerTriplet(rgbTriplet)), spec)

----------------------------------------------------------------------------
(* Numbers *)

DigitChars == <<"0","1","2","3","4","5","6","7","8","9">>

IsDigit(c) == \E i \in 1..10 : DigitChars[i] = c

DigitVal(c) == (CHOOSE i \in 1..10 : DigitChars[i] = c) - 1

\* the index after the run of decimal digits that starts at s[i]
RECURSIVE DigitsEnd(_, _)
DigitsEnd(s, i) ==
  IF i <= Len(s) /\ IsDigit(s[i]) THEN DigitsEnd(s, i + 1) ELSE i

\* the values of a string of decimal digits
DigitValues(s) == [i \in 1..Len(s) |-> DigitVal(s[i])]

RECURSIVE StripLeadingZeros(_)
StripLeadingZeros(d) ==
  IF d # <<>> /\ Head(d) = 0 THEN StripLeadingZeros(Tail(d)) ELSE d

RECURSIVE StripTrailingZeros(_)
StripTrailingZeros(d) ==
  IF d # <<>> /\ d[Len(d)] = 0
    THEN StripTrailingZeros(SubSeq(d, 1, Len(d) - 1)) ELSE d

\* the number a sequence of digit values denotes (short sequences only)
RECURSIVE NatOf(_)
NatOf(d) == IF d = <<>> THEN 0 ELSE 10 * NatOf(SubSeq(d, 1, Len(d) - 1)) + d[Len(d)]

\* the digit values of a natural number, most significant first; <<>> for 0
RECURSIVE DigitsOf(_)
DigitsOf(n) == IF n = 0 THEN <<>> ELSE DigitsOf(n \div 10) \o <<n % 10>>

\* lexicographic order on digit sequences of the same length
RECURSIVE LexLess(_, _)
LexLess(a, b) ==
  /\ a # <<>>
  /\ \/ Head(a) < Head(b)
     \/ Head(a) = Head(b) /\ LexLess(Tail(a), Tail(b))

\* a < b for naturals written without leading zeros; they may be too long
\* for a machine integer
DecLess(a, b) == Len(a) < Len(b) \/ (Len(a) = Len(b) /\ LexLess(a, b))

\* 1<<64 - 1
MaxUint64 == <<1,8,4,4,6,7,4,4,0,7,3,7,0,9,5,5,1,6,1,5>>

\* 1<<63, the cutoff of ParseInt for a 64-bit int
Int64Cutoff == <<9,2,2,3,3,7,2,0,3,6,8,5,4,7,7,5,8,0,8>>

ErrSyntax == "ErrSyntax"
ErrRange == "ErrRange"

\* strconv.Atoi (int is 64 bits).  The value of an int is kept as its sign
\* and its decimal digits: [neg, dig], dig = <<>> for 0.
\* ParseUint reads the digits left to right and reports a range error as
\* soon as the digits read exceed 1<<64 - 1, a syntax error at the first
\* character that is not a digit; ParseInt then checks the signed range.
Atoi(s) ==
  LET signed == s # <<>> /\ s[1] \in {"+", "-"}
      neg == s # <<>> /\ s[1] = "-"
      body == IF signed THEN Tail(s) ELSE s
  IN
  Bind(DigitsEnd(body, 1), LAMBDA k :
  Bind(StripLeadingZeros(DigitValues(SubSeq(body, 1, k - 1))), LAMBDA dig :
      IF body = <<>> THEN Err(ErrSyntax)
      ELSE IF DecLess(MaxUint64, dig) THEN Err(ErrRange)
      ELSE IF k <= Len(body) THEN Err(ErrSyntax)
      ELSE IF ~neg /\ ~DecLess(dig, Int64Cutoff) THEN Err(ErrRange)
      ELSE IF neg /\ DecLess(Int64Cutoff, dig) THEN Err(ErrRange)
      ELSE Ok([neg |-> neg /\ dig # <<>>, dig |-> dig])))

\* strconv.Itoa
Itoa(n) ==
  IF n.dig = <<>> THEN <<"0">>
  ELSE (IF n.neg THEN <<"-">> ELSE <<>>)
         \o [i \in 1..Len(n.dig) |-> DigitChars[n.dig[i] + 1]]

\* A float64 is kept as the decimal it was read or computed from:
\* [neg, dig, dp, trunc] stands for (-1)^neg * 0.d1d2...dn * 10^dp, dig = <<>>
\* for zero; trunc says that non-zero digits follow dig.  A float64 holds
\* such a value to 15 significant digits and more; the strings of this model
\* are shorter.
Dec(neg, dig, dp, trunc) ==
  Bind(StripLeadingZeros(dig), LAMBDA stripped :
  Bind(IF trunc THEN stripped ELSE StripTrailingZeros(stripped), LAMBDA d :
    [neg |-> neg, dig |-> d,
     dp |-> IF d = <<>> THEN 0 ELSE dp - (Len(dig) - Len(stripped)),
     trunc |-> trunc]))

\* the largest float64 is just below 0.17976931348623158 * 10^309
MaxFloat64Digits == <<1,7,9,7,6,9,3,1,3,4,8,6,2,3,1,5,8>>

Overflows(x) ==
  \/ x.dp > 309
  \/ /\ x.dp = 309
     /\ LET n == Len(MaxFloat64Digits)
            d == [i \in 1..n |-> IF i <= Len(x.dig) THEN x.dig[i] ELSE 0]
        IN  ~LexLess(d, MaxFloat64Digits)

\* strconv.ParseFloat(s, 64) on decimal literals:
\*   [sign] digits [. [digits]] [e [sign] digits]   or   [sign] . digits ...
\* (the strings of this model have no letters of "inf", "nan" or of a
\* hexadecimal literal, which ParseFloat also reads)
ParseFloat(s) ==
  LET signed == s # <<>> /\ s[1] \in {"+", "-"}
      neg == s # <<>> /\ s[1] = "-"
      i0 == IF signed THEN 2 ELSE 1
  IN
  Bind(DigitsEnd(s, i0), LAMBDA a :
  Bind(IF a <= Len(s) /\ s[a] = "." THEN DigitsEnd(s, a + 1) ELSE a, LAMBDA b :
  LET hasDot == a <= Len(s) /\ s[a] = "."
      intDigits == SubSeq(s, i0, a - 1)
      fracDigits == IF hasDot THEN SubSeq(s, a + 1, b - 1) ELSE <<>>
      hasExp == b <= Len(s) /\ s[b] \in {"e", "E"}
      esigned == hasExp /\ b + 1 <= Len(s) /\ s[b + 1] \in {"+", "-"}
      eneg == esigned /\ s[b + 1] = "-"
      c == IF esigned THEN b + 2 ELSE b + 1
  IN
  Bind(IF hasExp THEN DigitsEnd(s, c) ELSE b, LAMBDA d :
  Bind(IF hasExp THEN StripLeadingZeros(DigitValues(SubSeq(s, c, d - 1)))
       ELSE <<>>, LAMBDA expDigits :
  Bind(IF Len(expDigits) > 4 THEN 10000 ELSE NatOf(expDigits), LAMBDA e :
  Bind(Dec(neg, DigitValues(intDigits \o fracDigits),
           Len(intDigits) + (IF eneg THEN 0 - e ELSE e), FALSE), LAMBDA x :
      IF Len(intDigits) + Len(fracDigits) = 0 THEN Err(ErrSyntax)
      ELSE IF hasExp /\ d = c THEN Err(ErrSyntax)
      ELSE IF d <= Len(s) THEN Err(ErrSyntax)
      ELSE IF Overflows(x) THEN Err(ErrRange)
      ELSE Ok(x)))))))

\* x rounded to n significant digits, to the nearest, an exact tie to even
RoundDec(x, n) ==
  IF Len(x.dig) <= n THEN Dec(x.neg, x.dig, x.dp, FALSE)
  ELSE LET keep == SubSeq(x.dig, 1, n)
           next == x.dig[n + 1]
           more == x.trunc \/ \E i \in (n + 2)..Len(x.dig) : x.dig[i] # 0
           up == \/ next > 5
                 \/ next = 5 /\ more
                 \/ next = 5 /\ ~more /\ keep[n] % 2 = 1
           m == NatOf(keep) + 1
       IN  IF ~up THEN Dec(x.neg, keep, x.dp, FALSE)
           ELSE IF m = Pow(10, n) THEN Dec(x.neg, <<1>>, x.dp + 1, FALSE)
           ELSE Dec(x.neg, DigitsOf(m), x.dp, FALSE)

DigitAt(dig, i) == IF i >= 1 /\ i <= Len(dig) THEN DigitChars[dig[i] + 1] ELSE "0"

\* %e: d.ddde±dd, with prec digits after the point
fmtE(x, prec) ==
  LET exp == IF x.dig = <<>> THEN 0 ELSE x.dp - 1
      abs == IF exp < 0 THEN 0 - exp ELSE exp
      ed == DigitsOf(abs)
  IN  (IF x.neg THEN <<"-">> ELSE <<>>)
      \o <<DigitAt(x.dig, 1)>>
      \o (IF prec > 0 THEN <<".">> \o [i \in 1..prec |-> DigitAt(x.dig, i + 1)]
          ELSE <<>>)
      \o <<"e", IF exp < 0 THEN "-" ELSE "+">>
      \o (IF abs < 10 THEN <<"0", DigitChars[abs + 1]>>
          ELSE [i \in 1..Len(ed) |-> DigitChars[ed[i] + 1]])

\* %f: ddd.ddd, with prec digits after the point
fmtF(x, prec) ==
  (IF x.neg THEN <<"-">> ELSE <<>>)
  \o (IF x.dp > 0 THEN [i \in 1..x.dp |-> DigitAt(x.dig, i)] ELSE <<"0">>)
  \o (IF prec > 0 THEN <<".">> \o [i \in 1..prec |-> DigitAt(x.dig, x.dp + i)]
      ELSE <<>>)

\* strconv.FormatFloat(f, 'g', prec, 64)
FormatFloat(f, prec) ==
  Bind(RoundDec(f, prec), LAMBDA digs :
  LET nd == Len(digs.dig)
      eprec == IF prec > nd /\ nd >= digs.dp THEN nd ELSE prec
      exp == digs.dp - 1
  IN  IF exp < -4 \/ exp >= eprec
        THEN fmtE(digs, (IF prec > nd THEN nd ELSE prec) - 1)
        ELSE LET p == IF prec > digs.dp THEN nd ELSE prec
             IN  fmtF(digs, IF p - digs.dp > 0 THEN p - digs.dp ELSE 0))

----------------------------------------------------------------------------
(* Percentages *)

\* the index of the first "%" of s, Len(s) + 1 if there is none
RECURSIVE IndexPercent(_, _)
IndexPercent(s, i) ==
  IF i <= Len(s) /\ s[i] # "%" THEN IndexPercent(s, i + 1) ELSE i

\* strings.Split(value, "%")[0]
BeforePercent(value) == SubSeq(value, 1, IndexPercent(value, 1) - 1)

\* strings.Contains(s, ".")
ContainsDot(s) == \E i \in 1..Len(s) : s[i] = "."

\* 0 <= f <= 100, f < 0, f > 100 for a float64 f
FloatNegative(f) == f.neg /\ f.dig # <<>>
FloatAbove100(f) == ~f.neg /\ (f.dp > 3 \/ (f.dp = 3 /\ f.dig # <<1>>))

\* 0 <= n <= 100, n < 0, n > 100 for an int n
IntNegative(n) == n.neg
IntAbove100(n) == ~n.neg /\ (Len(n.dig) > 3 \/ (Len(n.dig) = 3 /\ n.dig # <<1,0,0>>))

\* normalizePercentRGB
normalizePercentRGB(value) ==
  Bind(BeforePercent(value), LAMBDA percent :
  IF ContainsDot(percent)
    THEN Bind(ParseFloat(percent), LAMBDA percentf :
         IF percentf.status = "err" THEN Err(percentf.err)
         ELSE IF ~FloatNegative(percentf.val) /\ ~FloatAbove100(percentf.val)
           THEN Ok(FormatFloat(percentf.val, 4) \o <<"%">>)
         ELSE IF FloatNegative(percentf.val) THEN Ok(<<"0","%">>)
         ELSE Ok(<<"1","0","0","%">>))
    ELSE Bind(Atoi(percent), LAMBDA percenti :
         IF percenti.status = "err" THEN Err(percenti.err)
         ELSE IF ~IntNegative(percenti.val) /\ ~IntAbove100(percenti.val)
           THEN Ok(Itoa(percenti.val) \o <<"%">>)
         ELSE IF IntNegative(percenti.val) THEN Ok(<<"0","%">>)
         ELSE Ok(<<"1","0","0","%">>)))

\* NormalizePercentTriplet: the first component that fails ends the loop,
\* and nil is returned with its error
RECURSIVE NormalizePercentFrom(_, _, _)
NormalizePercentFrom(rgbTriplet, i, finalTriplet) ==
  IF i > Len(rgbTriplet) THEN Ok(finalTriplet)
  ELSE Bind(normalizePercentRGB(rgbTriplet[i]), LAMBDA np :
       IF np.status = "err" THEN Err(np.err)
       ELSE NormalizePercentFrom(rgbTriplet, i + 1, Append(finalTriplet, np.val)))

NormalizePercentTriplet(rgbTriplet) == NormalizePercentFrom(rgbTriplet, 1, <<>>)

\* the first k decimals of r / b, for 0 <= r < b
RECURSIVE Decimals(_, _, _)
Decimals(r, b, k) ==
  IF k = 0 THEN <<>>
  ELSE <<(10 * r) \div b>> \o Decimals((10 * r) % b, b, k - 1)

\* what is left of r / b after its first k decimals
RECURSIVE Remainder(_, _, _)
Remainder(r, b, k) == IF k = 0 THEN r ELSE Remainder((10 * r) % b, b, k - 1)

\* the float64 a / b for naturals a and b, b > 0, to 8 decimals
Quotient(a, b) ==
  Dec(FALSE, DigitsOf(a \div b) \o Decimals(a % b, b, 8),
      Len(DigitsOf(a \div b)), Remainder(a % b, b, 8) # 0)

\* the literals RGBToRGBPercent keeps for 255, 128, 64, 32, 16 and 0
specials ==
  (255 :> <<"1","0","0","%">>) @@ (128 :> <<"5","0","%">>)
    @@ (64 :> <<"2","5","%">>) @@ (32 :> <<"1","2",".","5","0","%">>)
    @@ (16 :> <<"6",".","2","5","%">>) @@ (0 :> <<"0","%">>)

\* RGBToRGBPercent; (float64(v) / 255.0) * 100 is v * 100 / 255
RGBToRGBPercent(rgbTriplet) ==
  Bind(NormalizeIntegerTriplet(rgbTriplet), LAMBDA normalizedTriplet :
  Ok([i \in 1..3 |->
        IF normalizedTriplet[i] \in DOMAIN specials
          THEN specials[normalizedTriplet[i]]
          ELSE Bind(Quotient(normalizedTriplet[i] * 100, 255), LAMBDA percentVal :
                 FormatFloat(percentVal, 4) \o <<"%">>)]))

\* percentToInteger always taking the floor
percentToIntegerFloor(percent) ==
  Bind(ParseFloat(BeforePercent(percent)), LAMBDA num :
  IF num.status = "err" THEN Err(num.err)
  ELSE LET x == num.val
           p == (IF x.neg THEN -255 ELSE 255) * NatOf(x.dig)
           n == Len(x.dig) + 2 - x.dp
       IN  IF n <= 0 THEN Ok(p * Pow(10, 0 - n))
           ELSE IF n >= 9 THEN Ok(0)
           ELSE Ok(p \div Pow(10, n)))

\* percentToInteger: num = 255 * (num / 100.0) is p / 10^n for the integer
\* p = 255 * digits of num and n = its number of decimals + 2; the result is
\* the floor of num when its fractional part is below 0.5, else the ceiling.
\* When 10^n is above 2 * |p| the result is 0 whatever the sign.
percentToInteger(percent) ==
  Bind(ParseFloat(BeforePercent(percent)), LAMBDA num :
  IF num.status = "err" THEN Err(num.err)
  ELSE LET x == num.val
           p == (IF x.neg THEN -255 ELSE 255) * NatOf(x.dig)
           n == Len(x.dig) + 2 - x.dp
       IN  IF n <= 0 THEN Ok(p * Pow(10, 0 - n))
           ELSE IF n >= 9 THEN Ok(0)
           ELSE LET floor == p \div Pow(10, n)
                    e == p % Pow(10, n)
                IN  IF 2 * e < Pow(10, n) THEN Ok(floor) ELSE Ok(floor + 1))

\* RGBPercentToRGB: the triplet is normalized, then each component converted
RECURSIVE PercentToIntegerFrom(_, _, _)
PercentToIntegerFrom(normalizedTriplet, i, rgbTriplet) ==
  IF i > Len(normalizedTriplet) THEN Ok(rgbTriplet)
  ELSE Bind(percentToInteger(normalizedTriplet[i]), LAMBDA perI :
       IF perI.status = "err" THEN [Err(perI.err) EXCEPT !.val = rgbTriplet]
       ELSE PercentToIntegerFrom(normalizedTriplet, i + 1, Append(rgbTriplet, perI.val)))

RGBPercentToRGB(rgbPercentTriplet) ==
  Bind(NormalizePercentTriplet(rgbPercentTriplet), LAMBDA normalizedTriplet :
  IF normalizedTriplet.status = "err" THEN Err(normalizedTriplet.err)
  ELSE PercentToIntegerFrom(normalizedTriplet.val, 1, <<>>))

\* NameToRGBPercent
NameToRGBPercent(name, spec) ==
  Bind(NameToRGB(name, spec), LAMBDA rgb :
  IF rgb.status = "err" THEN Err(rgb.err) ELSE RGBToRGBPercent(rgb.val))

\* HexToRGBPercent
HexToRGBPercent(hexValue) ==
  Bind(HexToRGB(hexValue), LAMBDA hx :
  IF hx.status = "panic" THEN Panic
  ELSE IF hx.status = "err" THEN Err(hx.err)
  ELSE RGBToRGBPercent(hx.val))

\* RGBPercentToName: the triplet is normalized here and once more by
\* RGBPercentToRGB
RGBPercentToName(rgbPercentTriplet, spec) ==
  Bind(NormalizePercentTriplet(rgbPercentTriplet), LAMBDA npt :
  IF npt.status = "err" THEN Err(npt.err)
  ELSE Bind(RGBPercentToRGB(npt.val), LAMBDA rgb :
       IF rgb.status = "err" THEN Err(rgb.err)
       ELSE RGBToName(rgb.val, spec)))

\* RGBPercentToHex: the triplet is normalized here and once more by
\* RGBPercentToRGB
RGBPercentToHex(rgbPercentTriplet) ==
  Bind(NormalizePercentTriplet(rgbPercentTriplet), LAMBDA npt :
  IF npt.status = "err" THEN Err(npt.err)
  ELSE Bind(RGBPercentToRGB(npt.val), LAMBDA rgb :
       IF rgb.status = "err" THEN Err(rgb.err)
       ELSE Ok(RGBToHex(rgb.val))))

----------------------------------------------------------------------------
(* Inputs *)

\* the strings over an alphabet whose length is one of lens
Strings(alphabet, lens) == UNION {[1..k -> alphabet] : k \in lens}

Repeat(c, n) == [i \in 1..n |-> c]

MaxHexDigits == 7      \* hex inputs have up to this many characters after '#'
MaxOver == 4           \* integer components go from -MaxOver to 255 + MaxOver
MaxIntDigits == 3      \* digits before the point of a percent input
MaxLongDigits == 20    \* digits of the longest integer percent input
MaxFracDigits == 3     \* digits after the zeros after the point
MaxFracZeros == 4      \* zeros right after the point

\* specification strings: the four supported ones and some others
SpecInputs == {HTML4, CSS2, CSS21, CSS3, "", "css4", "CSS3"}

Unsupported == {spec \in SpecInputs : ~contains(SupportedSpecifications, spec)}

Supported == {spec \in SpecInputs : contains(SupportedSpecifications, spec)}

TableNames == (DOMAIN HTML4NamesToHex) \cup (DOMAIN CSS3NamesToHex) \cup {orange}

\* names: every name of the tables, other spellings of the html4 names and
\* of orange, and strings that are no color name
NameInputs ==
  TableNames
    \cup {ToUpper(n) : n \in (DOMAIN HTML4NamesToHex) \cup {orange}}
    \cup {Capitalize(n) : n \in (DOMAIN HTML4NamesToHex) \cup {orange}}
    \cup {<<>>, <<"g","r","a","y"," ">>, <<"#","8","0","8","0","8","0">>}

\* names for the conversions that go on from the hex value
LookupNames ==
  (DOMAIN HTML4NamesToHex)
    \cup {orange, ToUpper(orange), <<"t","e","a","l"," ">>, <<>>,
          <<"T","e","a","l">>, <<"c","y","a","n">>, <<"g","o","l","d","e","n","r","o","d">>}

\* hex strings: a '#' and then digits (of both cases) and a character that
\* is no digit, and strings of digits and '#'
HexInputs ==
  {<<"#">> \o b : b \in Strings({"0", "a", "F", "g"}, 0..MaxHexDigits)}
    \cup Strings({"0", "F", "#"}, 0..MaxHexDigits)

TableHexes ==
  {HTML4NamesToHex[n] : n \in DOMAIN HTML4NamesToHex}
    \cup {CSS3NamesToHex[n] : n \in DOMAIN CSS3NamesToHex}

\* the three-digit form of a hex value whose digits come in pairs
Short(h) == <<h[1], h[2], h[4], h[6]>>

\* hex strings for the lookups: the values of the tables, their upper-case
\* and three-digit forms, values without a name and malformed strings
LookupHexInputs ==
  TableHexes
    \cup {ToUpper(h) : h \in TableHexes}
    \cup {Short(h) : h \in {t \in TableHexes : t[2] = t[3] /\ t[4] = t[5] /\ t[6] = t[7]}}
    \cup {<<"#","1","2","3","4","5","6">>, <<"#","a","b","c">>}
    \cup {h \in HexInputs : Len(h) <= 2}

\* the triplet with v at position pos and the pair p at the other two
Place(v, p, pos) ==
  CASE pos = 1 -> <<v, p[1], p[2]>>
    [] pos = 2 -> <<p[1], v, p[2]>>
    [] pos = 3 -> <<p[1], p[2], v>>

\* integer triplets have one component from the whole range, the other two
\* from a few values in and out of range
IntComponents == (0 - MaxOver)..(255 + MaxOver)

IntPairs == {-1000, 0, 128, 70000} \X {-1000, 0, 128, 70000}

\* integer triplets for the lookups: the colors of the tables and triplets
\* out of range
LookupIntTriplets ==
  {HexToRGB(h).val : h \in TableHexes}
    \cup {<<-1, 0, 300>>, <<256, 165, -7>>, <<1, 2, 3>>}

\* A decimal with five significant digits, the last one a 5, lies half way
\* between two decimals of four digits.  FormatFloat rounds the float64, which
\* is the decimal itself only when the decimal is a multiple of a power of
\* two; the other ties fall to the side the float64 is on and are left out
\* of the inputs.
InexactTie(value) ==
  LET f == ParseFloat(BeforePercent(value)) IN
  /\ ContainsDot(BeforePercent(value))
  /\ f.status = "ok"
  /\ Len(f.val.dig) = 5
  /\ f.val.dig[5] = 5
  /\ ~(f.val.dp >= -2 /\ NatOf(f.val.dig) % Pow(5, 5 - f.val.dp) = 0)

PercentIntParts ==
  Strings({"0", "1", "5"}, 0..MaxIntDigits)
    \cup {Repeat("9", n) : n \in 18..MaxLongDigits}

PercentFracParts ==
  {<<".">> \o Repeat("0", z) \o t :
     z \in 0..MaxFracZeros, t \in Strings({"1", "2", "5", "9"}, 0..MaxFracDigits)}

FewIntParts == {<<>>, <<"0">>, <<"5","0">>, <<"9","9">>, <<"1","0","0">>}

FewFracParts ==
  {<<>>, <<".">>, <<".","5">>, <<".">> \o Repeat("0", MaxFracZeros) \o <<"1">>}

\* what comes before the '%': a sign or none, digits or none, a fraction or
\* none
PercentBodies ==
  {sign \o i \o f : sign \in {<<>>, <<"-">>}, i \in PercentIntParts, f \in FewFracParts}
    \cup {i \o f : i \in {<<>>, <<"9">>, <<"9","9">>}, f \in PercentFracParts}
    \cup {<<"+">> \o i \o f : i \in FewIntParts, f \in FewFracParts}

FewPercentBodies ==
  {sign \o i \o f : sign \in {<<>>, <<"-">>}, i \in FewIntParts, f \in FewFracParts}

\* percent strings with no '%', with two, or with other text around it
MalformedPercents ==
  {i \o f \o s : i \in {<<>>, <<"5","0">>}, f \in {<<>>, <<".","5">>},
                 s \in {<<>>, <<"%","%">>, <<"%","x">>, <<"x","%">>, <<" ","%">>}}

PercentInputs ==
  {v \in {b \o <<"%">> : b \in PercentBodies} \cup MalformedPercents : ~InexactTie(v)}

\* the other two components of a percent triplet
PercentPairs ==
  {<< <<"0","%">>, <<"1","0","0","%">> >>,
   << <<"1","2",".","5","%">>, <<"x">> >>,
   << <<"5","0">>, <<"-","1","0","%">> >>}

\* percent triplets for the lookups: the colors of the html4 table, and one
\* of a few components with a pair
LookupPercentTriplets ==
  {RGBToRGBPercent(HexToRGB(h).val).val : h \in {HTML4NamesToHex[n] : n \in DOMAIN HTML4NamesToHex}}
    \cup {Place(v, p, pos) :
            v \in {b \o <<"%">> : b \in FewPercentBodies} \cup MalformedPercents,
            p \in PercentPairs, pos \in 1..3}

----------------------------------------------------------------------------
(* Calls *)

\* A client calls a function of the package once the package is
\* initialised, and gets what the function returns.
Idle == pc = "ready" /\ call = NoCall

Called(op, arg, spec, result) ==
  /\ call' = [op |-> op, arg |-> arg, spec |-> spec]
  /\ ret' = result
  /\ UNCHANGED tables

CallNameToHex ==
  /\ Idle
  /\ \E name \in NameInputs, spec \in SpecInputs :
       Called("NameToHex", name, spec, NameToHex(name, spec))

CallNameToRGB ==
  /\ Idle
  /\ \E name \in LookupNames, spec \in SpecInputs :
       Called("NameToRGB", name, spec, NameToRGB(name, spec))

CallNameToRGBPercent ==
  /\ Idle
  /\ \E name \in LookupNames, spec \in SpecInputs :
       Called("NameToRGBPercent", name, spec, NameToRGBPercent(name, spec))

CallHexToName ==
  /\ Idle
  /\ \E hexValue \in LookupHexInputs, spec \in SpecInputs :
       Called("HexToName", hexValue, spec, HexToName(hexValue, spec))

CallRGBToName ==
  /\ Idle
  /\ \E rgbTriplet \in LookupIntTriplets, spec \in SpecInputs :
       Called("RGBToName", rgbTriplet, spec, RGBToName(rgbTriplet, spec))

CallRGBPercentToName ==
  /\ Idle
  /\ \E rgbPercentTriplet \in LookupPercentTriplets, spec \in SpecInputs :
       Called("RGBPercentToName", rgbPercentTriplet, spec,
              RGBPercentToName(rgbPercentTriplet, spec))

CallNormalizeHex ==
  /\ Idle
  /\ \E HexValue \in HexInputs :
       Called("NormalizeHex", HexValue, "none", NormalizeHex(HexValue))

CallHexToRGB ==
  /\ Idle
  /\ \E hexValue \in HexInputs :
       Called("HexToRGB", hexValue, "none", HexToRGB(hexValue))

CallHexToRGBPercent ==
  /\ Idle
  /\ \E hexValue \in HexInputs :
       Called("HexToRGBPercent", hexValue, "none", HexToRGBPercent(hexValue))

CallNormalizeIntegerTriplet ==
  /\ Idle
  /\ \E v \in IntComponents, p \in IntPairs, pos \in 1..3 :
       Called("NormalizeIntegerTriplet", Place(v, p, pos), "none",
           Ok(NormalizeIntegerTriplet(Place(v, p, pos))))

CallRGBToHex ==
  /\ Idle
  /\ \E v \in IntComponents, p \in IntPairs, pos \in 1..3 :
       Called("RGBToHex", Place(v, p, pos), "none", Ok(RGBToHex(Place(v, p, pos))))

CallRGBToRGBPercent ==
  /\ Idle
  /\ \E v \in IntComponents, p \in IntPairs, pos \in 1..3 :
       Called("RGBToRGBPercent", Place(v, p, pos), "none", RGBToRGBPercent(Place(v, p, pos)))

CallNormalizePercentTriplet ==
  /\ Idle
  /\ \E v \in PercentInputs, p \in PercentPairs, pos \in 1..3 :
       Called("NormalizePercentTriplet", Place(v, p, pos), "none",
           NormalizePercentTriplet(Place(v, p, pos)))

CallRGBPercentToRGB ==
  /\ Idle
  /\ \E v \in PercentInputs, p \in PercentPairs, pos \in 1..3 :
       Called("RGBPercentToRGB", Place(v, p, pos), "none",
           RGBPercentToRGB(Place(v, p, pos)))

CallRGBPercentToHex ==
  /\ Idle
  /\ \E v \in PercentInputs, p \in PercentPairs, pos \in 1..3 :
       Called("RGBPercentToHex", Place(v, p, pos), "none",
           RGBPercentToHex(Place(v, p, pos)))

\* The client has its result and may call again.
Return ==
  /\ call # NoCall
  /\ call' = NoCall
  /\ ret' = NoRet
  /\ UNCHANGED tables

----------------------------------------------------------------------------
(* Specifications *)

\* The package is initialised, then clients look colors up.
Next ==
  \/ PackageVars
  \/ init
  \/ CallNameToHex
  \/ CallNameToRGB
  \/ CallNameToRGBPercent
  \/ CallHexToName
  \/ CallRGBToName
  \/ CallRGBPercentToName
  \/ Return

Spec == Init /\ [][Next]_vars

\* The package as initialised when range visits the tables as written.
InitLoaded ==
  /\ pc = "ready"
  /\ CSS21NamesToHex = CSS21Filled(EmptyMap)
  /\ HTML4HexToNames = reverseMap(HTML4NamesToHex, KeysOf(HTML4Entries))
  /\ CSS21HexToNames = reverseMap(EmptyMap, <<>>)
  /\ CSS3HexToNames =
       CSS3Canonical(reverseMap(CSS3NamesToHex, KeysOf(CSS3Entries)))
  /\ call = NoCall
  /\ ret = NoRet

\* Clients convert hex values and integer triplets.
NextHex ==
  \/ CallNormalizeHex
  \/ CallHexToRGB
  \/ CallHexToRGBPercent
  \/ CallHexToName
  \/ CallNormalizeIntegerTriplet
  \/ CallRGBToHex
  \/ Return

SpecHex == InitLoaded /\ [][NextHex]_vars

\* Clients convert percent triplets.
NextPercent ==
  \/ CallNormalizePercentTriplet
  \/ CallRGBPercentToRGB
  \/ CallRGBPercentToHex
  \/ CallRGBToRGBPercent
  \/ Return

SpecPercent == InitLoaded /\ [][NextPercent]_vars

----------------------------------------------------------------------------
(* Properties of the lookups *)

\* the failures the interface names
UnsupportedSpecification == "UnsupportedSpecification"
UnknownColorName == "UnknownColorName"
InvalidPercentFormat == {ErrSyntax, ErrRange}

\* '#' and then exactly 3 or exactly 6 hexadecimal digits
WellFormedHex(s) ==
  /\ Len(s) \in {4, 7}
  /\ s[1] = "#"
  /\ \A i \in 2..Len(s) :
       s[i] \in {"0","1","2","3","4","5","6","7","8","9",
                 "a","b","c","d","e","f","A","B","C","D","E","F"}

\* C1: once the package is initialised, for every supported specification
\* and every name of its table, HexToName of the hex value NameToHex gives
\* for the name succeeds and returns a name of the same table with that hex
\* value (the name itself or its canonical alias).
C1_RoundTrip ==
  (/\ call.op = "NameToHex"
   /\ call.spec \in Supported
   /\ call.arg \in DOMAIN NamesToHexOf(call.spec))
  => /\ ret.status = "ok"
     /\ LET back == HexToName(ret.val, call.spec) IN
        /\ back.status = "ok"
        /\ back.val \in DOMAIN NamesToHexOf(call.spec)
        /\ NamesToHexOf(call.spec)[back.val] = ret.val

\* the pairs of a hex value and its 'gray' name in css3
GrayNames == CSS3Overrides

gray == <<"g","r","a","y">>

\* C3: wherever a hex value has a 'gray' and a 'grey' name, HexToName returns
\* the 'gray' one: for the seven such colors of css3, and for #808080 in
\* html4 and css2.
C3_GraySpelling ==
  pc = "ready"
  => /\ \A i \in 1..Len(GrayNames) :
          HexToName(GrayNames[i][1], CSS3) = Ok(GrayNames[i][2])
     /\ HexToName(<<"#","8","0","8","0","8","0">>, HTML4) = Ok(gray)
     /\ HexToName(<<"#","8","0","8","0","8","0">>, CSS2) = Ok(gray)

\* the reverse maps when range visits every table in the order it is written
WrittenHexToNames(spec) ==
  CASE spec = HTML4 -> reverseMap(HTML4NamesToHex, KeysOf(HTML4Entries))
    [] spec = CSS2 -> reverseMap(HTML4NamesToHex, KeysOf(HTML4Entries))
    [] spec = CSS21 -> reverseMap(EmptyMap, <<>>)
    [] spec = CSS3 ->
         CSS3Canonical(reverseMap(CSS3NamesToHex, KeysOf(CSS3Entries)))

\* C4: HexToName returns the same outcome whatever the order in which the
\* forward table was visited while the reverse table was built: the outcome
\* it has when the table is visited in the order it is written.
C4_Deterministic ==
  (/\ call.op = "HexToName"
   /\ call.spec \in Supported
   /\ WellFormedHex(call.arg))
  => LET h == NormalizeHex(call.arg).val
         m == WrittenHexToNames(call.spec)
     IN  IF h \in DOMAIN m THEN ret = Ok(m[h]) ELSE ret.status = "err"

\* the operations that take a specification
SpecificationTaking ==
  {"NameToHex", "NameToRGB", "NameToRGBPercent", "HexToName", "RGBToName",
   "RGBPercentToName"}

\* C5 as stated: with a specification string that is not one of the four,
\* every operation that takes a specification fails with
\* UnsupportedSpecification, whatever its other argument is.
C5_Original ==
  (call.op \in SpecificationTaking /\ call.spec \in Unsupported)
  => ret = Err(UnsupportedSpecification)

\* C5 as amended: with a specification string that is not one of the four,
\* every operation that takes a specification fails; NameToHex, NameToRGB,
\* NameToRGBPercent, HexToName and RGBToName fail with
\* UnsupportedSpecification whatever their other argument is, and
\* RGBPercentToName fails with UnsupportedSpecification when its percent
\* triplet converts to integers (it normalizes, and its normalized form
\* converts), and with the percent format error of that conversion otherwise.
C5_UnsupportedSpecification ==
  (call.op \in SpecificationTaking /\ call.spec \in Unsupported)
  => /\ ret.status = "err"
     /\ call.op # "RGBPercentToName" => ret.err = UnsupportedSpecification
     /\ call.op = "RGBPercentToName" =>
          LET npt == NormalizePercentTriplet(call.arg) IN
          IF npt.status = "ok" /\ RGBPercentToRGB(npt.val).status = "ok"
            THEN ret.err = UnsupportedSpecification
            ELSE ret.err \in InvalidPercentFormat

\* a malformed hex value and a malformed percent triplet have been looked up
\* under a specification that is not supported
C5_Witness ==
  /\ call.spec \in Unsupported
  /\ \/ call.op = "HexToName" /\ ~WellFormedHex(call.arg)
        /\ ret.err = UnsupportedSpecification
     \/ call.op = "RGBPercentToName" /\ ret.err \in InvalidPercentFormat

\* C9: NameToHex under css2 has the outcome it has under html4; under css21
\* it has the outcome it has under html4 for every name but orange, which is
\* #ffa500 under css21 and unknown under css2 and html4; upper and lower case
\* are the same name.
C9_Tables ==
  call.op = "NameToHex" =>
    /\ call.spec = CSS2 => ret = NameToHex(call.arg, HTML4)
    /\ (call.spec = CSS21 /\ ToLower(call.arg) # orange)
         => ret = NameToHex(call.arg, HTML4)
    /\ (call.spec = CSS21 /\ ToLower(call.arg) = orange)
         => ret = Ok(<<"#","f","f","a","5","0","0">>)
    /\ (call.spec \in {CSS2, HTML4} /\ ToLower(call.arg) = orange)
         => ret = Err(UnknownColorName)
    /\ call.spec \in Supported =>
         /\ ret = NameToHex(ToLower(call.arg), call.spec)
         /\ ret = NameToHex(ToUpper(call.arg), call.spec)

\* ORANGE has been looked up under css21
C9_Witness ==
  /\ call.op = "NameToHex"
  /\ call.spec = CSS21
  /\ call.arg = ToUpper(orange)
  /\ ret.status = "ok"

----------------------------------------------------------------------------
(* Properties of the conversions of hex values and integer triplets *)

\* C2: a string that is not '#' and 3 or 6 hexadecimal digits makes
\* NormalizeHex, HexToRGB, HexToRGBPercent, and HexToName under a supported
\* specification, return a failure to the caller; none of them aborts.
C2_InvalidHexFormat ==
  (/\ call.op \in {"NormalizeHex", "HexToRGB", "HexToRGBPercent", "HexToName"}
   /\ call.op = "HexToName" => call.spec \in Supported
   /\ ~WellFormedHex(call.arg))
  => ret.status = "err"

\* t with each component below 0 replaced by 0 and each component above 255
\* replaced by 255
Clamped(t) ==
  [i \in 1..3 |-> IF t[i] < 0 THEN 0 ELSE IF t[i] > 255 THEN 255 ELSE t[i]]

\* C8: for every integer triplet t, RGBToHex(t) does not fail, and
\* HexToRGB(RGBToHex(t)) succeeds and is t with its components clamped to
\* 0..255.
C8_RoundTrip ==
  call.op = "RGBToHex" =>
    /\ ret.status = "ok"
    /\ HexToRGB(ret.val) = Ok(Clamped(call.arg))
    /\ Clamped(call.arg) = NormalizeIntegerTriplet(call.arg)

\* a triplet with a component below 0, one in range and one above 255 has
\* been converted
C8_Witness ==
  /\ call.op = "RGBToHex"
  /\ call.arg[1] < 0
  /\ call.arg[2] \in 1..254
  /\ call.arg[3] > 255
  /\ ret.status = "ok"

LowerHexChars ==
  {"0","1","2","3","4","5","6","7","8","9","a","b","c","d","e","f"}

\* C10: for a well-formed hex value, NormalizeHex gives '#' and exactly 6
\* lower-case hexadecimal digits: the digits of a 6-digit value in lower
\* case, each digit of a 3-digit value twice; NormalizeHex of the result is
\* the result.
C10_NormalizeHex ==
  (call.op = "NormalizeHex" /\ WellFormedHex(call.arg))
  => /\ ret.status = "ok"
     /\ Len(ret.val) = 7
     /\ ret.val[1] = "#"
     /\ \A i \in 2..7 : ret.val[i] \in LowerHexChars
     /\ Len(call.arg) = 7 =>
          \A i \in 2..7 : ret.val[i] = ToLowerChar(call.arg[i])
     /\ Len(call.arg) = 4 =>
          \A i \in 1..3 : /\ ret.val[2 * i] = ToLowerChar(call.arg[i + 1])
                          /\ ret.val[2 * i + 1] = ToLowerChar(call.arg[i + 1])
     /\ NormalizeHex(ret.val) = ret

\* a 3-digit value with an upper-case digit has been normalized
C10_Witness ==
  /\ call.op = "NormalizeHex"
  /\ WellFormedHex(call.arg)
  /\ Len(call.arg) = 4
  /\ \E i \in 2..4 : call.arg[i] = "F"
  /\ \E i \in 2..4 : call.arg[i] = "a"
  /\ ret.status = "ok"

----------------------------------------------------------------------------
(* Properties of the conversions of percent triplets *)

\* a sign or none, then digits with at most one point among them
IsNumber(b) ==
  LET body == IF b # <<>> /\ b[1] \in {"+", "-"} THEN Tail(b) ELSE b IN
  /\ \E i \in 1..Len(body) : IsDigit(body[i])
  /\ \A i \in 1..Len(body) : IsDigit(body[i]) \/ body[i] = "."
  /\ Cardinality({i \in 1..Len(body) : body[i] = "."}) <= 1

\* a number and then one '%', which ends the string
WellFormedPercent(s) ==
  /\ s # <<>>
  /\ s[Len(s)] = "%"
  /\ IsNumber(SubSeq(s, 1, Len(s) - 1))

\* the digits before the point of a percent string, without leading zeros,
\* and the digits after the point
IntegerDigits(s) ==
  StripLeadingZeros(DigitValues(SelectSeq(
    SubSeq(s, 1, (CHOOSE i \in 1..Len(s) : s[i] \in {".", "%"}
                     /\ \A j \in 1..(i - 1) : s[j] \notin {".", "%"}) - 1),
    IsDigit)))

FractionDigits(s) ==
  DigitValues(SelectSeq(
    SubSeq(s, CHOOSE i \in 1..Len(s) : s[i] \in {".", "%"}
                     /\ \A j \in 1..(i - 1) : s[j] \notin {".", "%"}, Len(s)),
    IsDigit))

IsZero(s) ==
  IntegerDigits(s) = <<>> /\ \A i \in 1..Len(FractionDigits(s)) : FractionDigits(s)[i] = 0

Below0(s) == s[1] = "-" /\ ~IsZero(s)

Above100(s) ==
  /\ s[1] # "-"
  /\ \/ Len(IntegerDigits(s)) > 3
     \/ /\ Len(IntegerDigits(s)) = 3
        /\ \/ IntegerDigits(s) # <<1, 0, 0>>
           \/ \E i \in 1..Len(FractionDigits(s)) : FractionDigits(s)[i] # 0

IsInteger(s) == \A i \in 1..Len(s) : s[i] # "."

\* C6: NormalizePercentTriplet fails with InvalidPercentFormat, and returns
\* no part of a result, whenever a component is not a number immediately
\* followed by a single '%' that ends it.
C6_InvalidPercentFormat ==
  (/\ call.op = "NormalizePercentTriplet"
   /\ \E i \in 1..3 : ~WellFormedPercent(call.arg[i]))
  => /\ ret.status = "err"
     /\ ret.err \in InvalidPercentFormat
     /\ ret.val = <<>>

\* C7: clamping is no error: when every component is a number followed by
\* '%', NormalizePercentTriplet succeeds, a component below 0 becomes "0%",
\* a component above 100 becomes "100%", and an integer component from 0 to
\* 100 is that integer followed by '%'.
C7_Clamping ==
  (/\ call.op = "NormalizePercentTriplet"
   /\ \A i \in 1..3 : WellFormedPercent(call.arg[i]))
  => /\ ret.status = "ok"
     /\ \A i \in 1..3 :
          LET s == call.arg[i] IN
          /\ Below0(s) => ret.val[i] = <<"0","%">>
          /\ Above100(s) => ret.val[i] = <<"1","0","0","%">>
          /\ (IsInteger(s) /\ ~Below0(s) /\ ~Above100(s)) =>
               ret.val[i] =
                 (IF IntegerDigits(s) = <<>> THEN <<"0">>
                  ELSE [j \in 1..Len(IntegerDigits(s)) |->
                          DigitChars[IntegerDigits(s)[j] + 1]]) \o <<"%">>

\* 255 * (p / 100) rounded half up, for p the number of the well-formed
\* percent string s clamped to 0..100.  255 * p is a / 100 for
\* a = 255 * (digits before the point) + 255 * 0.(digits after the point);
\* only the whole part of a decides the rounding.
HalfUp(s) ==
  IF Below0(s) THEN 0
  ELSE IF Above100(s) THEN 255
  ELSE LET fraction == StripTrailingZeros(FractionDigits(s))
           a == 255 * NatOf(IntegerDigits(s))
                  + (255 * NatOf(fraction)) \div Pow(10, Len(fraction))
       IN  a \div 100 + (IF a % 100 >= 50 THEN 1 ELSE 0)

\* C11: for a percent triplet whose components are each a number followed
\* by '%', RGBPercentToRGB succeeds, and each component of its result is
\* 255 * (p / 100) rounded half up for p the component clamped to 0..100,
\* so it is in 0..255.
C11_HalfUp ==
  (/\ call.op = "RGBPercentToRGB"
   /\ \A i \in 1..3 : WellFormedPercent(call.arg[i]))
  => /\ ret.status = "ok"
     /\ \A i \in 1..3 : /\ ret.val[i] = HalfUp(call.arg[i])
                        /\ ret.val[i] \in 0..255

\* C12: for every percent triplet p that NormalizePercentTriplet accepts,
\* RGBPercentToRGB(p) and RGBPercentToHex(p) succeed, and RGBPercentToHex(p)
\* is RGBToHex(RGBPercentToRGB(p)).
C12_Chained ==
  (/\ call.op = "RGBPercentToHex"
   /\ NormalizePercentTriplet(call.arg).status = "ok")
  => /\ RGBPercentToRGB(call.arg).status = "ok"
     /\ ret.status = "ok"
     /\ ret.val = RGBToHex(RGBPercentToRGB(call.arg).val)

\* the literals of the integers that are kept as written
SpecialLiterals ==
  (0 :> <<"0","%">>) @@ (16 :> <<"6",".","2","5","%">>)
    @@ (32 :> <<"1","2",".","5","0","%">>) @@ (64 :> <<"2","5","%">>)
    @@ (128 :> <<"5","0","%">>) @@ (255 :> <<"1","0","0","%">>)

\* C13: for every integer triplet t, RGBToRGBPercent(t) succeeds, and
\* RGBPercentToRGB of its result succeeds and is t with its components
\* clamped to 0..255, which is NormalizeIntegerTriplet(t); 0, 16, 32, 64,
\* 128 and 255 are given as their literals.
C13_Lossless ==
  call.op = "RGBToRGBPercent" =>
    /\ ret.status = "ok"
    /\ RGBPercentToRGB(ret.val) = Ok(Clamped(call.arg))
    /\ Clamped(call.arg) = NormalizeIntegerTriplet(call.arg)
    /\ \A i \in 1..3 :
         Clamped(call.arg)[i] \in DOMAIN SpecialLiterals
           => ret.val[i] = SpecialLiterals[Clamped(call.arg)[i]]

\* a triplet of a formatted value, a literal and a value above 255 has been
\* converted
C13_Witness ==
  /\ call.op = "RGBToRGBPercent"
  /\ call.arg[1] = 218
  /\ call.arg[2] = 128
  /\ call.arg[3] > 255
  /\ ret.status = "ok"
  /\ ret.val[1] = <<"8","5",".","4","9","%">>

=============================================================================
